---- MODULE Spec2Model ----
(***************************************************************************)
(* Heartbeat registry (HeartbeatManager) and per-chain health monitor      *)
(* (ChainHealthMonitor) of the cross-chain health monitoring service.      *)
(*                                                                         *)
(* Time is counted in whole seconds.  A Python dict is a function whose    *)
(* DOMAIN is its key set.  An Optional[T] value is a sequence of length    *)
(* at most one: << >> is Python's None, <<v>> is the value v.              *)
(***************************************************************************)
EXTENDS Integers, Sequences, FiniteSets, TLC

\* ------------------------------------------------------------------ bounds
\* The clock runs from 0 to MaxTime seconds.
MaxTime == 3

\* ---------------------------------------------------------------- constants
\* HeartbeatManager.__init__(default_ping_interval_seconds = 30)
default_ping_interval_seconds == 30

\* Chain ids the callers use.
ChainIds == {"c1", "c2"}

\* startup_event: the chains registered at startup and their ping interval.
dummy_chains == <<"chain_alpha", "chain_beta", "chain_gamma">>
StartupPingInterval == 5

\* periodic_pinger: `await asyncio.sleep(2)` between two passes.
PingerSleep == 2

\* asyncio.sleep returns no sooner than asked: the event loop resumes the
\* prober in the second its sleep ends or up to MaxLate seconds after it.
MaxLate == 1

\* Optional values.
None == << >>
Some(v) == << v >>

\* The ping_interval_seconds arguments callers pass to register_chain:
\* nothing, zero, or a positive number of seconds.
IntervalArgs == {None, Some(0), Some(1), Some(2)}

VARIABLES
    now,              \* datetime.now(), in seconds
    last_seen,        \* HeartbeatManager._last_seen      : chain id -> time
    ping_intervals,   \* HeartbeatManager._ping_intervals : chain id -> seconds
    registered,       \* history: ids registered and not unregistered since
    ever_registered,  \* history: ids register_chain was ever called with
    given_interval,   \* history: argument of the call that created the record
    touched_at,       \* history: time and kind of the last call that stamped the record
    call,             \* history: the last registry call and what it returned
    chain_monitors,   \* the ChainHealthMonitor objects, by chain id
    check,            \* the check_health call in progress or last completed
    monitor_order,    \* key order of the _chain_monitors dict (insertion order)
    metrics_call,     \* the get_metrics call in progress or last completed
    req,              \* the get_chain_health request in progress or last completed
    dash,             \* the get_health_dashboard request in progress or last completed
    pinger,           \* the periodic_pinger task
    fetched,          \* history: time and verdict at the last start of get_metrics, by chain id
    api_status,       \* what get_health_status last returned, if it was called
    held              \* a snapshot a caller was handed, and what it showed then

registry_vars == <<last_seen, ping_intervals>>
history_vars == <<registered, ever_registered, given_interval, touched_at>>
monitor_vars == <<chain_monitors, check, monitor_order, metrics_call, req,
                  dash, pinger, fetched, api_status, held>>
caller_vars == <<api_status, held>>
vars == <<now, last_seen, ping_intervals, registered, ever_registered,
          given_interval, touched_at, call, chain_monitors, check,
          monitor_order, metrics_call, req, dash, pinger, fetched,
          api_status, held>>

\* ------------------------------------------------------------ dict helpers
\* d[k] = v
Put(d, k, v) == [x \in (DOMAIN d) \cup {k} |-> IF x = k THEN v ELSE d[x]]
\* del d[k]
Del(d, k) == [x \in (DOMAIN d) \ {k} |-> d[x]]
\* d.get(k)
Get(d, k) == IF k \in DOMAIN d THEN Some(d[k]) ELSE None
\* {}
EmptyDict == [x \in {} |-> 0]

\* `a or b` for an Optional[int] a: None and 0 are falsy.
PyOr(a, b) == IF a = None \/ a = Some(0) THEN b ELSE a[1]

\* ------------------------------------------------- HeartbeatManager (pure)
\* Variant of register_chain without the `not in` test: every call stamps
\* the record again.
register_chain_overwrites(chain_id, ping_interval_seconds) ==
    [last_seen |-> Put(last_seen, chain_id, now),
     ping_intervals |-> Put(ping_intervals, chain_id,
                            PyOr(ping_interval_seconds,
                                 default_ping_interval_seconds))]

\* register_chain: the two dicts after the call.
register_chain(chain_id, ping_interval_seconds) ==
    IF chain_id \notin DOMAIN last_seen
    THEN [last_seen |-> Put(last_seen, chain_id, now),
          ping_intervals |-> Put(ping_intervals, chain_id,
                                 PyOr(ping_interval_seconds,
                                      default_ping_interval_seconds))]
    ELSE [last_seen |-> last_seen, ping_intervals |-> ping_intervals]

\* Variant of unregister_chain that forgets `del self._ping_intervals[...]`.
unregister_chain_keeps_interval(chain_id) ==
    IF chain_id \in DOMAIN last_seen
    THEN [last_seen |-> Del(last_seen, chain_id),
          ping_intervals |-> ping_intervals]
    ELSE [last_seen |-> last_seen, ping_intervals |-> ping_intervals]

\* unregister_chain: the two dicts after the call.
unregister_chain(chain_id) ==
    IF chain_id \in DOMAIN last_seen
    THEN [last_seen |-> Del(last_seen, chain_id),
          ping_intervals |-> Del(ping_intervals, chain_id)]
    ELSE [last_seen |-> last_seen, ping_intervals |-> ping_intervals]

\* get_last_seen
get_last_seen(chain_id) == Get(last_seen, chain_id)

\* get_ping_interval
get_ping_interval(chain_id) == Get(ping_intervals, chain_id)

\* Variant of ping_chain without the membership test: an unknown chain gets
\* a _last_seen entry.
ping_chain_creates(chain_id) ==
    [last_seen |-> Put(last_seen, chain_id, now),
     ret |-> chain_id \in DOMAIN last_seen]

\* Variant of ping_chain that reports success without stamping the record.
ping_chain_no_stamp(chain_id) ==
    [last_seen |-> last_seen, ret |-> chain_id \in DOMAIN last_seen]

\* Variant of ping_chain that stamps every record of the registry.
ping_chain_stamps_all(chain_id) ==
    IF chain_id \in DOMAIN last_seen
    THEN [last_seen |-> [x \in DOMAIN last_seen |-> now], ret |-> TRUE]
    ELSE [last_seen |-> last_seen, ret |-> FALSE]

\* Variant of ping_chain that stamps the record with the time its next
\* ping is due by.
ping_chain_stamps_deadline(chain_id) ==
    IF chain_id \in DOMAIN last_seen
    THEN [last_seen |-> Put(last_seen, chain_id,
                            now + ping_intervals[chain_id]),
          ret |-> TRUE]
    ELSE [last_seen |-> last_seen, ret |-> FALSE]

\* ping_chain: the _last_seen dict after the call, and the returned bool.
ping_chain(chain_id) ==
    IF chain_id \in DOMAIN last_seen
    THEN [last_seen |-> Put(last_seen, chain_id, now), ret |-> TRUE]
    ELSE [last_seen |-> last_seen, ret |-> FALSE]

\* Variant of is_chain_alive with an exclusive boundary (`<` for `<=`).
is_chain_alive_exclusive(chain_id) ==
    LET ls == Get(last_seen, chain_id)
        pi == Get(ping_intervals, chain_id)
    IN  IF ls = None \/ pi = None
        THEN FALSE
        ELSE (now - ls[1]) < pi[1]

\* Variant of is_chain_alive that falls back to the default interval and
\* to the current time for a chain without a record.
is_chain_alive_defaults(chain_id) ==
    LET ls == IF chain_id \in DOMAIN last_seen THEN last_seen[chain_id] ELSE now
        pi == IF chain_id \in DOMAIN ping_intervals THEN ping_intervals[chain_id]
              ELSE default_ping_interval_seconds
    IN  (now - ls) <= pi

\* is_chain_alive
is_chain_alive(chain_id) ==
    LET ls == Get(last_seen, chain_id)
        pi == Get(ping_intervals, chain_id)
    IN  IF ls = None \/ pi = None
        THEN FALSE
        ELSE (now - ls[1]) <= pi[1]

\* ------------------------------------------------------------ HealthStatus
HEALTHY == "healthy"
DEGRADED == "degraded"
UNHEALTHY == "unhealthy"
UNKNOWN == "unknown"
HealthStatus == {HEALTHY, DEGRADED, UNHEALTHY, UNKNOWN}

\* ------------------------------------------------ ChainHealthMonitor (pure)
\* The chain_api_client a monitor is built with: None, or a probe object
\* whose ping() returns True, returns False or raises, as it pleases.
NoClient == "none"
Probe == "probe"
Clients == {NoClient, Probe}
PingOutcomes == {"true", "false", "raise"}

\* A probe call that ends by timeout raises TimeoutError
\* (asyncio.TimeoutError), like every failure of the call an instance of
\* Exception.
TIMEOUT == "timeout"
ProbeExceptions == {"raise", TIMEOUT}
PingOutcomesWithTimeout == PingOutcomes \cup {TIMEOUT}

\* check_health suspended in `await self.chain_api_client.ping()`.
AWAIT_PING == "await_ping"

\* ChainHealthMonitor.__init__: the new monitor object.  error_rate and
\* availability are counted in hundredths (1.0 is 100); is_alive is no
\* field of HealthMetrics and is unset (None) until get_metrics sets it.
ChainHealthMonitor(chain_id, chain_api_client) ==
    [chain_id |-> chain_id,
     chain_api_client |-> chain_api_client,
     last_metrics |-> [timestamp |-> now,
                       response_time_ms |-> 0,
                       error_rate |-> 0,
                       availability |-> 0,
                       last_checked |-> now,
                       metadata |-> EmptyDict,
                       is_alive |-> None]]

\* Variant of check_health that asks the probe before it looks at the
\* heartbeat.
check_health_probe_first(monitor) ==
    IF monitor.chain_api_client # NoClient
    THEN AWAIT_PING
    ELSE IF ~is_chain_alive(monitor.chain_id) THEN UNHEALTHY ELSE HEALTHY

\* check_health up to its first suspension: the status returned without
\* calling the probe, or AWAIT_PING when the probe's ping() is awaited.
check_health(monitor) ==
    IF ~is_chain_alive(monitor.chain_id)
    THEN UNHEALTHY
    ELSE IF monitor.chain_api_client # NoClient
         THEN AWAIT_PING
         ELSE HEALTHY

\* Variant of check_health_resume that maps a failed ping to DEGRADED and a
\* false answer to UNHEALTHY.
check_health_resume_swapped(chain_response) ==
    CASE chain_response = "true" -> HEALTHY
      [] chain_response = "false" -> UNHEALTHY
      [] chain_response = "raise" -> DEGRADED

\* The caller got an exception instead of a return value.
RAISED == "raised"

\* Variant of check_health_resume without the try/except: a failure of
\* ping() reaches the caller.
check_health_resume_propagates(chain_response) ==
    CASE chain_response = "true" -> HEALTHY
      [] chain_response = "false" -> DEGRADED
      [] chain_response = "raise" -> RAISED

\* Variant of check_health_resume whose except clause names the errors of
\* the connection only: a timeout reaches the caller.
check_health_resume_timeout_escapes(chain_response) ==
    CASE chain_response = "true" -> HEALTHY
      [] chain_response = "false" -> DEGRADED
      [] chain_response = "raise" -> UNHEALTHY
      [] chain_response = TIMEOUT -> RAISED

\* Variant of check_health_resume whose except clause gives no verdict: a
\* failure of ping() makes the status UNKNOWN.
check_health_resume_unknown_on_error(chain_response) ==
    CASE chain_response = "true" -> HEALTHY
      [] chain_response = "false" -> DEGRADED
      [] chain_response \in ProbeExceptions -> UNKNOWN

\* check_health from the point where the probe's ping() has answered
\* (True, False) or raised: the status returned.  `except Exception`
\* catches whatever the call raised.
check_health_resume(chain_response) ==
    CASE chain_response = "true" -> HEALTHY
      [] chain_response = "false" -> DEGRADED
      [] chain_response \in ProbeExceptions -> UNHEALTHY

\* What `await self.chain_api_client.get_status()` can do: raise, or return
\* a dict that has or lacks the keys response_time_ms and error_rate.
StatusRaises == [raises |-> TRUE, timeout |-> FALSE,
                 response_time_ms |-> None, error_rate |-> None]
StatusFull == [raises |-> FALSE, timeout |-> FALSE,
               response_time_ms |-> Some(50), error_rate |-> Some(1)]
StatusEmpty == [raises |-> FALSE, timeout |-> FALSE,
                response_time_ms |-> None, error_rate |-> None]
StatusOutcomes == {StatusRaises, StatusFull, StatusEmpty}

\* get_status() ends by timeout: it raises TimeoutError.
StatusTimeout == [raises |-> TRUE, timeout |-> TRUE,
                  response_time_ms |-> None, error_rate |-> None]
StatusOutcomesWithTimeout == StatusOutcomes \cup {StatusTimeout}

\* get_metrics suspended in `await self.chain_api_client.get_status()`.
AWAIT_STATUS == "await_status"

\* dict.get(key, default) on the status dict
GetOr(opt, default) == IF opt = None THEN default ELSE opt[1]

\* Variant of get_metrics that stamps last_checked and leaves is_alive as
\* the last call that set it left it.
get_metrics_stale_alive(monitor) ==
    LET m1 == [monitor.last_metrics EXCEPT !.last_checked = now]
    IN  IF monitor.chain_api_client # NoClient
        THEN [pc |-> AWAIT_STATUS, last_metrics |-> m1]
        ELSE [pc |-> "done",
              last_metrics |-> [m1 EXCEPT !.response_time_ms = 0,
                                          !.error_rate = 0]]

\* Variant of get_metrics that also fills in availability from the
\* heartbeat verdict and renews the snapshot's timestamp.
get_metrics_fills_availability(monitor) ==
    LET alive == is_chain_alive(monitor.chain_id)
        m1 == [monitor.last_metrics EXCEPT
                   !.is_alive = Some(alive),
                   !.last_checked = now,
                   !.timestamp = now,
                   !.availability = IF alive THEN 100 ELSE 0]
    IN  IF monitor.chain_api_client # NoClient
        THEN [pc |-> AWAIT_STATUS, last_metrics |-> m1]
        ELSE [pc |-> "done",
              last_metrics |-> [m1 EXCEPT !.response_time_ms = 0,
                                          !.error_rate = 0]]

\* get_metrics up to its first suspension: the snapshot as written so far,
\* and whether get_status() is awaited (pc = AWAIT_STATUS) or the method
\* has returned (pc = "done").
get_metrics(monitor) ==
    LET m1 == [monitor.last_metrics EXCEPT
                   !.is_alive = Some(is_chain_alive(monitor.chain_id)),
                   !.last_checked = now]
    IN  IF monitor.chain_api_client # NoClient
        THEN [pc |-> AWAIT_STATUS, last_metrics |-> m1]
        ELSE [pc |-> "done",
              last_metrics |-> [m1 EXCEPT !.response_time_ms = 0,
                                          !.error_rate = 0]]

\* Variant of get_metrics_resume that keeps the earlier value of a field
\* the status dict lacks.
get_metrics_resume_keeps(last_metrics, status_data) ==
    IF status_data.raises
    THEN [raised |-> FALSE,
          last_metrics |-> [last_metrics EXCEPT !.response_time_ms = -1,
                                                !.error_rate = 100]]
    ELSE [raised |-> FALSE,
          last_metrics |-> [last_metrics EXCEPT
              !.response_time_ms = GetOr(status_data.response_time_ms,
                                         last_metrics.response_time_ms),
              !.error_rate = GetOr(status_data.error_rate,
                                   last_metrics.error_rate)]]

\* Variant of get_metrics_resume that logs a failure of get_status() and
\* leaves the two fields as they were.
get_metrics_resume_no_sentinel(last_metrics, status_data) ==
    IF status_data.raises
    THEN [raised |-> FALSE, last_metrics |-> last_metrics]
    ELSE [raised |-> FALSE,
          last_metrics |-> [last_metrics EXCEPT
              !.response_time_ms = GetOr(status_data.response_time_ms, 0),
              !.error_rate = GetOr(status_data.error_rate, 0)]]

\* Variant of get_metrics_resume in which a failure sticks: once
\* response_time_ms is negative a success no longer stores its figures.
get_metrics_resume_sticky_sentinel(last_metrics, status_data) ==
    IF status_data.raises \/ last_metrics.response_time_ms < 0
    THEN [raised |-> FALSE,
          last_metrics |-> [last_metrics EXCEPT !.response_time_ms = -1,
                                                !.error_rate = 100]]
    ELSE [raised |-> FALSE,
          last_metrics |-> [last_metrics EXCEPT
              !.response_time_ms = GetOr(status_data.response_time_ms, 0),
              !.error_rate = GetOr(status_data.error_rate, 0)]]

\* Variant of get_metrics_resume that stamps last_checked again when
\* get_status() has returned.
get_metrics_resume_restamps(last_metrics, status_data) ==
    IF status_data.raises
    THEN [raised |-> FALSE,
          last_metrics |-> [last_metrics EXCEPT !.response_time_ms = -1,
                                                !.error_rate = 100,
                                                !.last_checked = now]]
    ELSE [raised |-> FALSE,
          last_metrics |-> [last_metrics EXCEPT
              !.response_time_ms = GetOr(status_data.response_time_ms, 0),
              !.error_rate = GetOr(status_data.error_rate, 0),
              !.last_checked = now]]

\* get_metrics from the point where get_status() has returned its dict or
\* raised: the snapshot after the method, and whether an exception left it.
get_metrics_resume(last_metrics, status_data) ==
    IF status_data.raises
    THEN [raised |-> FALSE,
          last_metrics |-> [last_metrics EXCEPT !.response_time_ms = -1,
                                                !.error_rate = 100]]
    ELSE [raised |-> FALSE,
          last_metrics |-> [last_metrics EXCEPT
              !.response_time_ms = GetOr(status_data.response_time_ms, 0),
              !.error_rate = GetOr(status_data.error_rate, 0)]]

\* ------------------------------------------------------ health_router (pure)
\* The DummyChainApiClient get_chain_monitor builds its monitors with: its
\* ping() returns True and its get_status() returns random figures.  Neither
\* coroutine awaits anything, so awaiting them does not suspend the caller.
Dummy == "dummy"
DummyStatuses ==
    {[raises |-> FALSE, response_time_ms |-> Some(20), error_rate |-> Some(0)],
     [raises |-> FALSE, response_time_ms |-> Some(100), error_rate |-> Some(5)]}

\* get_chain_monitor registers an unknown chain with ping_interval_seconds=5.
RouterPingInterval == 5

\* Variant of get_chain_monitor that registers the chain without an
\* interval, so that the registry's default applies.
get_chain_monitor_default_interval(chain_id) ==
    IF chain_id \notin DOMAIN chain_monitors
    THEN LET reg == IF get_last_seen(chain_id) = None
                    THEN register_chain(chain_id, None)
                    ELSE [last_seen |-> last_seen,
                          ping_intervals |-> ping_intervals]
         IN  [last_seen |-> reg.last_seen,
              ping_intervals |-> reg.ping_intervals,
              chain_monitors |-> Put(chain_monitors, chain_id,
                                     ChainHealthMonitor(chain_id, Dummy)),
              created |-> TRUE]
    ELSE [last_seen |-> last_seen, ping_intervals |-> ping_intervals,
          chain_monitors |-> chain_monitors, created |-> FALSE]

\* Variant of get_chain_monitor without the test for an existing monitor:
\* every call builds a monitor and stores it under the chain id.
get_chain_monitor_rebuilds(chain_id) ==
    LET reg == IF get_last_seen(chain_id) = None
               THEN register_chain(chain_id, Some(RouterPingInterval))
               ELSE [last_seen |-> last_seen,
                     ping_intervals |-> ping_intervals]
    IN  [last_seen |-> reg.last_seen,
         ping_intervals |-> reg.ping_intervals,
         chain_monitors |-> Put(chain_monitors, chain_id,
                                ChainHealthMonitor(chain_id, Dummy)),
         created |-> TRUE]

\* get_chain_monitor: the registry dicts and the _chain_monitors dict after
\* the call, and whether a monitor was built.
get_chain_monitor(chain_id) ==
    IF chain_id \notin DOMAIN chain_monitors
    THEN LET reg == IF get_last_seen(chain_id) = None
                    THEN register_chain(chain_id, Some(RouterPingInterval))
                    ELSE [last_seen |-> last_seen,
                          ping_intervals |-> ping_intervals]
         IN  [last_seen |-> reg.last_seen,
              ping_intervals |-> reg.ping_intervals,
              chain_monitors |-> Put(chain_monitors, chain_id,
                                     ChainHealthMonitor(chain_id, Dummy)),
              created |-> TRUE]
    ELSE [last_seen |-> last_seen, ping_intervals |-> ping_intervals,
          chain_monitors |-> chain_monitors, created |-> FALSE]

\* Variant of get_health_status that looks at the registry: a chain whose
\* heartbeat is overdue makes the API report itself degraded.
get_health_status_by_chains ==
    [status |-> IF \A c \in DOMAIN last_seen : is_chain_alive(c)
                THEN "operational" ELSE "degraded",
     message |-> "API is healthy"]

\* get_health_status: the dict the handler of GET / returns.
get_health_status ==
    [status |-> "operational", message |-> "API is healthy"]

\* `return self._last_metrics` of get_metrics, and the "metrics" entry the
\* two handlers put into their results: the monitor's HealthMetrics object
\* itself, named here by the monitor that owns it.
get_metrics_returns(monitor) == [owner |-> monitor.chain_id]

\* The fields of the HealthMetrics object a reference leads to.
SnapshotOf(ref) == chain_monitors[ref.owner].last_metrics

\* `metrics = await monitor.get_metrics()` of a request handler, run until
\* get_status() of a real probe suspends it or until it has returned.
\* status is what check_health returned; dummy_status is what a dummy
\* client's get_status() returns in this run.
MetricsPhase(monitor, status, dummy_status) ==
    LET g == get_metrics(monitor) IN
    IF g.pc = AWAIT_STATUS /\ monitor.chain_api_client = Probe
    THEN [pc |-> AWAIT_STATUS, status |-> status, last_metrics |-> g.last_metrics]
    ELSE IF g.pc = AWAIT_STATUS
         THEN [pc |-> "done", status |-> status,
               last_metrics |->
                   get_metrics_resume(g.last_metrics, dummy_status).last_metrics]
         ELSE [pc |-> "done", status |-> status, last_metrics |-> g.last_metrics]

\* `health_status = await monitor.check_health()` followed by the metrics
\* phase, run until a real probe suspends the handler or both have returned.
HealthPhase(monitor, dummy_status) ==
    LET h == check_health(monitor) IN
    IF h = AWAIT_PING /\ monitor.chain_api_client = Probe
    THEN [pc |-> AWAIT_PING, status |-> UNKNOWN,
          last_metrics |-> monitor.last_metrics]
    ELSE MetricsPhase(monitor,
                      IF h = AWAIT_PING THEN check_health_resume("true") ELSE h,
                      dummy_status)

\* Variant of DashCount whose loop moves two chains on.
DashCountSkipsOne(d, chain_id, health_status) ==
    [d EXCEPT !.chains = Put(d.chains, chain_id, health_status),
              !.unhealthy_count =
                  IF health_status = UNHEALTHY THEN @ + 1 ELSE @,
              !.degraded_count =
                  IF health_status # UNHEALTHY /\ health_status = DEGRADED
                  THEN @ + 1 ELSE @,
              !.idx = @ + 2]

\* The body of the dashboard's loop after get_metrics has returned for
\* chain_id: the entry is stored and the status is counted.
DashCount(d, chain_id, health_status) ==
    [d EXCEPT !.chains = Put(d.chains, chain_id, health_status),
              !.unhealthy_count =
                  IF health_status = UNHEALTHY THEN @ + 1 ELSE @,
              !.degraded_count =
                  IF health_status # UNHEALTHY /\ health_status = DEGRADED
                  THEN @ + 1 ELSE @,
              !.idx = @ + 1]

\* Variant of DashFinish that reports DEGRADED before it looks at the
\* unhealthy count.
DashFinishDegradedFirst(d) ==
    [d EXCEPT !.pc = "done",
              !.overall_status =
                  IF d.degraded_count > 0 THEN DEGRADED
                  ELSE IF d.unhealthy_count > 0 THEN UNHEALTHY
                  ELSE HEALTHY]

\* The dashboard after its loop: the overall status is derived from the
\* two counts and the result is returned.
DashFinish(d) ==
    [d EXCEPT !.pc = "done",
              !.overall_status =
                  IF d.unhealthy_count > 0 THEN UNHEALTHY
                  ELSE IF d.degraded_count > 0 THEN DEGRADED
                  ELSE HEALTHY]

\* `for chain_id, monitor in _chain_monitors.items()` from the point where
\* the iterator is asked for its next item, run until a real probe suspends
\* the handler, the loop ends, or the iterator finds that the dict has
\* changed size since the loop began (RuntimeError, which nothing catches).
\* History: what check_health of the monitor meets when the dashboard
\* calls it: the registry's verdict, and the probe's ping() that is not
\* called ("none"), answers at once ("true", the dummy client) or is
\* awaited ("pending").
DashMeets(monitor) ==
    LET alive == is_chain_alive(monitor.chain_id) IN
    [alive |-> alive,
     ping |-> IF ~alive \/ monitor.chain_api_client = NoClient THEN "none"
              ELSE IF monitor.chain_api_client = Dummy THEN "true"
              ELSE "pending"]

RECURSIVE DashLoop(_, _, _)
DashLoop(d, monitors, dummy_status) ==
    IF Len(monitor_order) # d.size_at_start
    THEN [dash |-> [d EXCEPT !.pc = RAISED], chain_monitors |-> monitors]
    ELSE IF d.idx > Len(monitor_order)
    THEN [dash |-> DashFinish(d), chain_monitors |-> monitors]
    ELSE LET chain_id == monitor_order[d.idx]
             ph == HealthPhase(monitors[chain_id], dummy_status)
             ms == [monitors EXCEPT ![chain_id].last_metrics = ph.last_metrics]
             d1 == [d EXCEPT !.seen = Put(@, chain_id,
                                          DashMeets(monitors[chain_id]))]
         IN  IF ph.pc = "done"
             THEN DashLoop(DashCount(d1, chain_id, ph.status), ms, dummy_status)
             ELSE [dash |-> [d1 EXCEPT !.pc = ph.pc, !.cur_status = ph.status],
                   chain_monitors |-> ms]

\* ------------------------------------------------------ main.py (pure)
\* The elements of a sequence.
Range(seq) == {seq[i] : i \in DOMAIN seq}

\* Variant of startup_event that builds the monitors of the dummy chains
\* and registers none of them.
startup_event_monitors_only ==
    LET fresh == {c \in Range(dummy_chains) : get_last_seen(c) = None}
    IN  [last_seen |-> last_seen,
         ping_intervals |-> ping_intervals,
         chain_monitors |-> [c \in (DOMAIN chain_monitors) \cup fresh |->
                                IF c \in DOMAIN chain_monitors
                                THEN chain_monitors[c]
                                ELSE ChainHealthMonitor(c, Dummy)],
         fresh |-> fresh]

\* startup_event: the registry dicts and _chain_monitors after the loop over
\* dummy_chains.  The chains are distinct, so each pass writes its own keys.
startup_event ==
    LET fresh == {c \in Range(dummy_chains) : get_last_seen(c) = None}
        reg(c) == register_chain(c, Some(StartupPingInterval))
    IN  [last_seen |-> [c \in (DOMAIN last_seen) \cup fresh |->
                           IF c \in fresh THEN reg(c).last_seen[c]
                           ELSE last_seen[c]],
         ping_intervals |-> [c \in (DOMAIN ping_intervals) \cup fresh |->
                                IF c \in fresh THEN reg(c).ping_intervals[c]
                                ELSE ping_intervals[c]],
         chain_monitors |-> [c \in (DOMAIN chain_monitors) \cup fresh |->
                                get_chain_monitor(c).chain_monitors[c]],
         fresh |-> fresh]

\* Variant of periodic_pinger whose pass pings no chain.
periodic_pinger_idle == last_seen

\* Variant of periodic_pinger whose pass pings only the chains whose
\* ping interval is about to run out.
periodic_pinger_due_only ==
    [c \in DOMAIN last_seen |->
        IF now - last_seen[c] >= ping_intervals[c]
        THEN ping_chain(c).last_seen[c]
        ELSE last_seen[c]]

\* Variant of periodic_pinger whose pass stamps every chain it has ever
\* seen registered, without asking ping_chain.
periodic_pinger_stale_keys ==
    [c \in (DOMAIN last_seen) \cup ever_registered |-> now]

\* Variant of periodic_pinger whose pass gives way after its first chain:
\* it stamps the chain seen longest ago and leaves the others for later.
periodic_pinger_one_per_pass ==
    [c \in DOMAIN last_seen |->
        IF c = (CHOOSE x \in DOMAIN last_seen :
                   \A y \in DOMAIN last_seen : last_seen[x] <= last_seen[y])
        THEN ping_chain(c).last_seen[c]
        ELSE last_seen[c]]

\* periodic_pinger: _last_seen after one pass of
\* `for chain_id in _last_seen.keys(): ping_chain(chain_id)`.  ping_chain
\* on a key of the dict assigns to that key only, so the dict keeps its
\* size during the iteration and each pass writes its own key.
periodic_pinger ==
    [c \in DOMAIN last_seen |-> ping_chain(c).last_seen[c]]

\* --------------------------------------------------------------- history
NoCall == [op |-> "none", chain_id |-> "", arg |-> None, at |-> 0,
           was_registered |-> FALSE, was_ever_registered |-> FALSE,
           ret_bool |-> FALSE, ret_opt |-> None]

Called(op, chain_id, arg, rb, ro) ==
    [op |-> op, chain_id |-> chain_id, arg |-> arg, at |-> now,
     was_registered |-> chain_id \in registered,
     was_ever_registered |-> chain_id \in ever_registered,
     ret_bool |-> rb, ret_opt |-> ro]

\* --------------------------------------------------------------- actions
\* The wall clock (datetime.now()) advances by one second; it never steps
\* back.  A sleeping periodic_pinger is resumed at most MaxLate seconds
\* after its sleep ends, and once it runs the clock is followed for one more
\* of its periods.
Tick ==
    /\ now < (IF pinger.pc = "sleeping"
              THEN MaxTime + PingerSleep + MaxLate
              ELSE MaxTime)
    /\ pinger.pc = "sleeping" => now < pinger.wake + MaxLate
    /\ now' = now + 1
    /\ UNCHANGED <<registry_vars, history_vars, call, monitor_vars>>

RegisterChain(c, p) ==
    LET r == register_chain(c, p) IN
    /\ last_seen' = r.last_seen
    /\ ping_intervals' = r.ping_intervals
    /\ registered' = registered \cup {c}
    /\ ever_registered' = ever_registered \cup {c}
    /\ given_interval' = IF c \in registered THEN given_interval
                         ELSE Put(given_interval, c, p)
    /\ touched_at' = IF c \in registered THEN touched_at
                     ELSE Put(touched_at, c, [at |-> now, by |-> "register"])
    /\ call' = Called("register", c, p, FALSE, None)
    /\ UNCHANGED <<now, monitor_vars>>

UnregisterChain(c) ==
    LET r == unregister_chain(c) IN
    /\ last_seen' = r.last_seen
    /\ ping_intervals' = r.ping_intervals
    /\ registered' = registered \ {c}
    /\ given_interval' = Del(given_interval, c)
    /\ touched_at' = Del(touched_at, c)
    /\ call' = Called("unregister", c, None, FALSE, None)
    /\ UNCHANGED <<now, ever_registered, monitor_vars>>

PingChain(c) ==
    LET r == ping_chain(c) IN
    /\ last_seen' = r.last_seen
    /\ touched_at' = IF c \in registered
                     THEN Put(touched_at, c, [at |-> now, by |-> "ping"])
                     ELSE touched_at
    /\ call' = Called("ping", c, None, r.ret, None)
    /\ UNCHANGED <<now, ping_intervals, registered, ever_registered,
                   given_interval, monitor_vars>>

GetLastSeen(c) ==
    /\ call' = Called("get_last_seen", c, None, FALSE, get_last_seen(c))
    /\ UNCHANGED <<now, registry_vars, history_vars, monitor_vars>>

GetPingInterval(c) ==
    /\ call' = Called("get_ping_interval", c, None, FALSE, get_ping_interval(c))
    /\ UNCHANGED <<now, registry_vars, history_vars, monitor_vars>>

IsChainAlive(c) ==
    /\ call' = Called("is_alive", c, None, is_chain_alive(c), None)
    /\ UNCHANGED <<now, registry_vars, history_vars, monitor_vars>>

\* No check_health call has been made yet.
NoCheck == [pc |-> "idle", chain_id |-> "", at |-> 0, alive |-> FALSE,
            client |-> NoClient, probe_pings |-> 0, outcome |-> "none",
            ret |-> UNKNOWN]

\* History: get_metrics starts in this step on the monitors of the chains
\* in S; the time and the registry's verdict it reads are noted.
FetchStarted(S) ==
    [c \in (DOMAIN fetched) \cup S |->
        IF c \in S
        THEN [at |-> now',
              alive |-> (c \in registered'
                         /\ now' <= touched_at'[c].at + ping_intervals'[c])]
        ELSE fetched[c]]

\* History: the chains of dashboard request d whose get_metrics has been
\* called: those the loop has met, but for one whose ping() is awaited.
DashFetching(d) ==
    DOMAIN d.seen \ (IF d.pc = AWAIT_PING THEN {monitor_order[d.idx]} ELSE {})

\* A ChainHealthMonitor is constructed for chain c (one per chain id).
NewMonitor(c, client) ==
    /\ c \notin DOMAIN chain_monitors
    /\ chain_monitors' = Put(chain_monitors, c, ChainHealthMonitor(c, client))
    /\ monitor_order' = Append(monitor_order, c)
    /\ UNCHANGED <<now, registry_vars, history_vars, call, check,
                   metrics_call, req, dash, pinger, fetched, caller_vars>>

\* Variant of CheckHealthStart in which check_health also stamps the
\* snapshot's last_checked.
CheckHealthStartStamps(c) ==
    /\ c \in DOMAIN chain_monitors
    /\ check.pc # AWAIT_PING
    /\ LET m == chain_monitors[c]
           r == check_health(m)
       IN  /\ check' = [pc |-> IF r = AWAIT_PING THEN AWAIT_PING ELSE "done",
                        chain_id |-> c,
                        at |-> now,
                        alive |-> (c \in registered
                                   /\ now <= touched_at[c].at + ping_intervals[c]),
                        client |-> m.chain_api_client,
                        probe_pings |-> IF r = AWAIT_PING THEN 1 ELSE 0,
                        outcome |-> "none",
                        ret |-> IF r = AWAIT_PING THEN UNKNOWN ELSE r]
           /\ chain_monitors' =
                  [chain_monitors EXCEPT ![c].last_metrics.last_checked = now]
    /\ UNCHANGED <<now, registry_vars, history_vars, call,
                   monitor_order, metrics_call, req, dash, pinger,
                   fetched, caller_vars>>

\* check_health() is called on the monitor of chain c and runs to its
\* return or to the await of the probe's ping().
CheckHealthStart(c) ==
    /\ c \in DOMAIN chain_monitors
    /\ check.pc # AWAIT_PING
    /\ LET m == chain_monitors[c]
           r == check_health(m)
       IN  check' = [pc |-> IF r = AWAIT_PING THEN AWAIT_PING ELSE "done",
                     chain_id |-> c,
                     at |-> now,
                     alive |-> (c \in registered
                                /\ now <= touched_at[c].at + ping_intervals[c]),
                     client |-> m.chain_api_client,
                     probe_pings |-> IF r = AWAIT_PING THEN 1 ELSE 0,
                     outcome |-> "none",
                     ret |-> IF r = AWAIT_PING THEN UNKNOWN ELSE r]
    /\ UNCHANGED <<now, registry_vars, history_vars, call, chain_monitors,
                   monitor_order, metrics_call, req, dash, pinger,
                   fetched, caller_vars>>

\* The awaited ping() of the probe answers or raises and check_health
\* returns.
ProbePingReturns(outcome) ==
    /\ check.pc = AWAIT_PING
    /\ check' = [check EXCEPT !.pc = "done",
                               !.outcome = outcome,
                               !.ret = check_health_resume(outcome)]
    /\ UNCHANGED <<now, registry_vars, history_vars, call, chain_monitors,
                   monitor_order, metrics_call, req, dash, pinger,
                   fetched, caller_vars>>

\* No get_metrics call has been made yet.
NoMetricsCall == [pc |-> "idle", chain_id |-> "", at |-> 0, alive |-> FALSE,
                  client |-> NoClient, status_calls |-> 0,
                  outcome |-> StatusEmpty, raised |-> FALSE]

\* get_metrics() is called on the monitor of chain c and runs to its return
\* or to the await of the probe's get_status().
GetMetricsStart(c) ==
    /\ c \in DOMAIN chain_monitors
    /\ metrics_call.pc # AWAIT_STATUS
    /\ LET m == chain_monitors[c]
           r == get_metrics(m)
       IN  /\ chain_monitors' =
                  [chain_monitors EXCEPT ![c].last_metrics = r.last_metrics]
           /\ metrics_call' =
                  [pc |-> r.pc,
                   chain_id |-> c,
                   at |-> now,
                   alive |-> (c \in registered
                              /\ now <= touched_at[c].at + ping_intervals[c]),
                   client |-> m.chain_api_client,
                   status_calls |-> IF r.pc = AWAIT_STATUS THEN 1 ELSE 0,
                   outcome |-> StatusEmpty,
                   raised |-> FALSE]
    /\ UNCHANGED <<now, registry_vars, history_vars, call, check,
                   monitor_order, req, dash, pinger, caller_vars>>
    /\ fetched' = FetchStarted({c})

\* The awaited get_status() of the probe returns its dict or raises and
\* get_metrics returns.
ProbeStatusReturns(status_data) ==
    /\ metrics_call.pc = AWAIT_STATUS
    /\ LET c == metrics_call.chain_id
           r == get_metrics_resume(chain_monitors[c].last_metrics, status_data)
       IN  /\ chain_monitors' =
                  [chain_monitors EXCEPT ![c].last_metrics = r.last_metrics]
           /\ metrics_call' = [metrics_call EXCEPT !.pc = "done",
                                                   !.outcome = status_data,
                                                   !.raised = r.raised]
    /\ UNCHANGED <<now, registry_vars, history_vars, call, check,
                   monitor_order, req, dash, pinger, fetched, caller_vars>>

\* No request has been made and periodic_pinger has not been started.
NoRequest == [pc |-> "idle", chain_id |-> "", at |-> 0, had_monitor |-> FALSE,
              was_registered |-> FALSE, status |-> UNKNOWN]
NoDashboard == [pc |-> "idle", at |-> 0, overall_status |-> HEALTHY,
                total_chains |-> 0, size_at_start |-> 0, idx |-> 1,
                cur_status |-> UNKNOWN, chains |-> EmptyDict,
                unhealthy_count |-> 0, degraded_count |-> 0,
                seen |-> EmptyDict]
NoPinger == [pc |-> "not_started", wake |-> 0]

\* get_chain_health(c) is called: get_chain_monitor, then check_health and
\* get_metrics on the monitor, up to the handler's return or to its first
\* suspension in a real probe.
GetChainHealth(c) ==
    LET r == get_chain_monitor(c) IN
    /\ req.pc \notin {AWAIT_PING, AWAIT_STATUS}
    /\ now' = now
    /\ last_seen' = r.last_seen
    /\ ping_intervals' = r.ping_intervals
    /\ IF c \notin DOMAIN chain_monitors /\ c \notin registered
       THEN /\ registered' = registered \cup {c}
            /\ ever_registered' = ever_registered \cup {c}
            /\ given_interval' = Put(given_interval, c, Some(RouterPingInterval))
            /\ touched_at' = Put(touched_at, c, [at |-> now, by |-> "register"])
            /\ call' = Called("register", c, Some(RouterPingInterval), FALSE, None)
       ELSE UNCHANGED <<history_vars, call>>
    /\ monitor_order' = IF r.created THEN Append(monitor_order, c)
                        ELSE monitor_order
    /\ \E monitor \in {r.chain_monitors[c]}, dummy_status \in DummyStatuses :
          LET ph == HealthPhase(monitor, dummy_status)' IN
          /\ chain_monitors' = [r.chain_monitors EXCEPT
                                    ![c].last_metrics = ph.last_metrics]
          /\ req' = [pc |-> ph.pc, chain_id |-> c, at |-> now,
                     had_monitor |-> ~r.created,
                     was_registered |-> c \in registered,
                     status |-> ph.status]
          /\ fetched' = FetchStarted(IF ph.pc = AWAIT_PING THEN {} ELSE {c})
    /\ UNCHANGED <<check, metrics_call, dash, pinger, caller_vars>>

\* The real probe's ping() awaited by get_chain_health answers or raises;
\* the handler goes on into get_metrics.
ReqPingReturns(outcome) ==
    /\ req.pc = AWAIT_PING
    /\ \E dummy_status \in DummyStatuses :
          LET c == req.chain_id
              ph == MetricsPhase(chain_monitors[c],
                                 check_health_resume(outcome), dummy_status)
          IN  /\ chain_monitors' = [chain_monitors EXCEPT
                                        ![c].last_metrics = ph.last_metrics]
              /\ req' = [req EXCEPT !.pc = ph.pc, !.status = ph.status]
    /\ UNCHANGED <<now, registry_vars, history_vars, call, check,
                   monitor_order, metrics_call, dash, pinger, caller_vars>>
    /\ fetched' = FetchStarted({req.chain_id})

\* The real probe's get_status() awaited by get_chain_health returns or
\* raises; the handler returns its result.
ReqStatusReturns(status_data) ==
    /\ req.pc = AWAIT_STATUS
    /\ LET c == req.chain_id
           g == get_metrics_resume(chain_monitors[c].last_metrics, status_data)
       IN  /\ chain_monitors' = [chain_monitors EXCEPT
                                     ![c].last_metrics = g.last_metrics]
           /\ req' = [req EXCEPT !.pc = "done"]
    /\ UNCHANGED <<now, registry_vars, history_vars, call, check,
                   monitor_order, metrics_call, dash, pinger,
                   fetched, caller_vars>>

\* Variant of DashStart whose counters go on from those of the dashboard
\* request before.
DashStartKeepsCounts ==
    /\ dash.pc \notin {AWAIT_PING, AWAIT_STATUS}
    /\ \E dummy_status \in DummyStatuses :
          LET d0 == [pc |-> "running",
                     at |-> now,
                     cur_status |-> UNKNOWN,
                     overall_status |-> HEALTHY,
                     total_chains |-> Len(monitor_order),
                     size_at_start |-> Len(monitor_order),
                     idx |-> 1,
                     chains |-> EmptyDict,
                     unhealthy_count |-> dash.unhealthy_count,
                     degraded_count |-> dash.degraded_count,
                     seen |-> EmptyDict]
              r == DashLoop(d0, chain_monitors, dummy_status)
          IN  /\ dash' = r.dash
              /\ chain_monitors' = r.chain_monitors
    /\ UNCHANGED <<now, registry_vars, history_vars, call, check,
                   monitor_order, metrics_call, req, pinger, caller_vars>>
    /\ fetched' = FetchStarted(DashFetching(dash'))

\* get_health_dashboard() is called and runs to its return or to its first
\* suspension in a real probe.
DashStart ==
    /\ dash.pc \notin {AWAIT_PING, AWAIT_STATUS}
    /\ \E dummy_status \in DummyStatuses :
          LET d0 == [pc |-> "running",
                     at |-> now,
                     cur_status |-> UNKNOWN,
                     overall_status |-> HEALTHY,
                     total_chains |-> Len(monitor_order),
                     size_at_start |-> Len(monitor_order),
                     idx |-> 1,
                     chains |-> EmptyDict,
                     unhealthy_count |-> 0,
                     degraded_count |-> 0,
                     seen |-> EmptyDict]
              r == DashLoop(d0, chain_monitors, dummy_status)
          IN  /\ dash' = r.dash
              /\ chain_monitors' = r.chain_monitors
    /\ UNCHANGED <<now, registry_vars, history_vars, call, check,
                   monitor_order, metrics_call, req, pinger, caller_vars>>
    /\ fetched' = FetchStarted(DashFetching(dash'))

\* The real probe's ping() awaited by the dashboard for the current chain
\* answers or raises; the handler goes on.
DashPingReturns(outcome) ==
    /\ dash.pc = AWAIT_PING
    /\ \E dummy_status \in DummyStatuses :
          LET chain_id == monitor_order[dash.idx]
              ph == MetricsPhase(chain_monitors[chain_id],
                                 check_health_resume(outcome), dummy_status)
              ms == [chain_monitors EXCEPT
                         ![chain_id].last_metrics = ph.last_metrics]
              d1 == [dash EXCEPT !.seen[chain_id].ping = outcome]
              r == IF ph.pc = "done"
                   THEN DashLoop(DashCount(d1, chain_id, ph.status), ms,
                                 dummy_status)
                   ELSE [dash |-> [d1 EXCEPT !.pc = ph.pc,
                                             !.cur_status = ph.status],
                         chain_monitors |-> ms]
          IN  /\ dash' = r.dash
              /\ chain_monitors' = r.chain_monitors
    /\ UNCHANGED <<now, registry_vars, history_vars, call, check,
                   monitor_order, metrics_call, req, pinger, caller_vars>>
    /\ fetched' = FetchStarted(DashFetching(dash') \ DashFetching(dash))

\* The real probe's get_status() awaited by the dashboard for the current
\* chain returns or raises; the handler goes on.
DashStatusReturns(status_data) ==
    /\ dash.pc = AWAIT_STATUS
    /\ \E dummy_status \in DummyStatuses :
          LET chain_id == monitor_order[dash.idx]
              g == get_metrics_resume(chain_monitors[chain_id].last_metrics,
                                      status_data)
              ms == [chain_monitors EXCEPT
                         ![chain_id].last_metrics = g.last_metrics]
              r == DashLoop(DashCount(dash, chain_id, dash.cur_status), ms,
                            dummy_status)
          IN  /\ dash' = r.dash
              /\ chain_monitors' = r.chain_monitors
    /\ UNCHANGED <<now, registry_vars, history_vars, call, check,
                   monitor_order, metrics_call, req, pinger, caller_vars>>
    /\ fetched' = FetchStarted(DashFetching(dash') \ DashFetching(dash))

\* startup_event() runs before any request is served: it registers the
\* dummy chains, builds their monitors and starts periodic_pinger, which
\* goes to sleep for PingerSleep seconds.
Startup ==
    LET r == startup_event IN
    /\ pinger.pc = "not_started"
    /\ last_seen' = r.last_seen
    /\ ping_intervals' = r.ping_intervals
    /\ chain_monitors' = r.chain_monitors
    /\ monitor_order' = monitor_order \o
          SelectSeq(dummy_chains,
                    LAMBDA c : c \in r.fresh /\ c \notin DOMAIN chain_monitors)
    /\ registered' = registered \cup r.fresh
    /\ ever_registered' = ever_registered \cup r.fresh
    /\ given_interval' = [c \in (DOMAIN given_interval) \cup r.fresh |->
                             IF c \in r.fresh THEN Some(StartupPingInterval)
                             ELSE given_interval[c]]
    /\ touched_at' = [c \in (DOMAIN touched_at) \cup r.fresh |->
                         IF c \in r.fresh THEN [at |-> now, by |-> "register"]
                         ELSE touched_at[c]]
    /\ pinger' = [pc |-> "sleeping", wake |-> now + PingerSleep]
    /\ UNCHANGED <<now, call, check, metrics_call, req, dash,
                   fetched, caller_vars>>

\* periodic_pinger's sleep is over: one pass over the registry without a
\* suspension, then it sleeps again.
PingerTick ==
    /\ pinger.pc = "sleeping"
    /\ now >= pinger.wake
    /\ last_seen' = periodic_pinger
    /\ touched_at' = [c \in DOMAIN touched_at |-> [at |-> now, by |-> "prober"]]
    /\ pinger' = [pc |-> "sleeping", wake |-> now + PingerSleep]
    /\ UNCHANGED <<now, ping_intervals, registered, ever_registered,
                   given_interval, call, chain_monitors, check, monitor_order,
                   metrics_call, req, dash, fetched, caller_vars>>

\* get_health_status() is called and returns.
GetHealthStatus ==
    /\ api_status' = Some([at |-> now, result |-> get_health_status])
    /\ UNCHANGED <<now, registry_vars, history_vars, call, chain_monitors,
                   check, monitor_order, metrics_call, req, dash, pinger,
                   fetched, held>>

\* A caller keeps the snapshot it was handed for chain c by a get_metrics
\* call, a get_chain_health request or a dashboard request that has
\* returned, and notes what it reads in it.  It keeps the first one.
CallerKeeps(c) ==
    /\ held = None
    /\ c \in DOMAIN chain_monitors
    /\ \/ metrics_call.pc = "done" /\ metrics_call.chain_id = c
       \/ req.pc = "done" /\ req.chain_id = c
       \/ dash.pc = "done" /\ c \in DOMAIN dash.chains
    /\ LET ref == get_metrics_returns(chain_monitors[c])
       IN  held' = Some([ref |-> ref, seen |-> SnapshotOf(ref)])
    /\ UNCHANGED <<now, registry_vars, history_vars, call, chain_monitors,
                   check, monitor_order, metrics_call, req, dash, pinger,
                   fetched, api_status>>

Init ==
    /\ now = 0
    /\ last_seen = EmptyDict
    /\ ping_intervals = EmptyDict
    /\ registered = {}
    /\ ever_registered = {}
    /\ given_interval = EmptyDict
    /\ touched_at = EmptyDict
    /\ call = NoCall
    /\ chain_monitors = EmptyDict
    /\ check = NoCheck
    /\ monitor_order = << >>
    /\ metrics_call = NoMetricsCall
    /\ fetched = EmptyDict
    /\ api_status = None
    /\ held = None
    /\ req = NoRequest
    /\ dash = NoDashboard
    /\ pinger = NoPinger

RegistryNext ==
    \/ Tick
    \/ \E c \in ChainIds, p \in IntervalArgs : RegisterChain(c, p)
    \/ \E c \in ChainIds : UnregisterChain(c)
    \/ \E c \in ChainIds : PingChain(c)
    \/ \E c \in ChainIds : GetLastSeen(c)
    \/ \E c \in ChainIds : GetPingInterval(c)
    \/ \E c \in ChainIds : IsChainAlive(c)

\* The registry alone, driven by its callers and the clock.
RegistrySpec == Init /\ [][RegistryNext]_vars

\* The chain and the intervals the monitor runs are made with.
MonitorChainIds == {"c1"}
MonitorIntervalArgs == {None, Some(1)}

MonitorNext ==
    \/ Tick
    \/ \E c \in MonitorChainIds, p \in MonitorIntervalArgs : RegisterChain(c, p)
    \/ \E c \in MonitorChainIds : UnregisterChain(c)
    \/ \E c \in MonitorChainIds : PingChain(c)
    \/ \E c \in MonitorChainIds, client \in Clients : NewMonitor(c, client)
    \/ \E c \in MonitorChainIds : CheckHealthStart(c)
    \/ \E outcome \in PingOutcomes : ProbePingReturns(outcome)

\* One monitor, its chain's heartbeat record, the probe and the clock.
MonitorSpec == Init /\ [][MonitorNext]_vars

MetricsNext ==
    \/ Tick
    \/ \E c \in MonitorChainIds, p \in MonitorIntervalArgs : RegisterChain(c, p)
    \/ \E c \in MonitorChainIds : UnregisterChain(c)
    \/ \E c \in MonitorChainIds : PingChain(c)
    \/ \E c \in MonitorChainIds, client \in Clients : NewMonitor(c, client)
    \/ \E c \in MonitorChainIds : CheckHealthStart(c)
    \/ \E outcome \in PingOutcomes : ProbePingReturns(outcome)
    \/ \E c \in MonitorChainIds : GetMetricsStart(c)
    \/ \E status_data \in StatusOutcomes : ProbeStatusReturns(status_data)

\* One monitor asked for its health and its metrics, in any order and
\* overlapping, over its chain's heartbeat record, the probe and the clock.
MetricsSpec == Init /\ [][MetricsNext]_vars

\* The chain whose probe can time out and the interval it is registered
\* with.
TimeoutChainIds == {"c1"}
TimeoutIntervalArgs == {Some(1)}

TimeoutNext ==
    \/ Tick
    \/ \E c \in TimeoutChainIds, p \in TimeoutIntervalArgs : RegisterChain(c, p)
    \/ \E c \in TimeoutChainIds : NewMonitor(c, Probe)
    \/ \E c \in TimeoutChainIds : CheckHealthStart(c)
    \/ \E outcome \in PingOutcomesWithTimeout : ProbePingReturns(outcome)
    \/ \E c \in TimeoutChainIds : GetMetricsStart(c)
    \/ \E status_data \in StatusOutcomesWithTimeout :
          ProbeStatusReturns(status_data)

\* One monitor over a probe whose calls answer, fail or time out.
TimeoutSpec == Init /\ [][TimeoutNext]_vars

\* Two monitors, each over its own chain: the first with a real probe and
\* its chain registered with PairIntervalArgs, the second without a probe.
PairChainIds == {"c1", "c2"}
PairClient == [c1 |-> Probe, c2 |-> NoClient]
PairIntervalArgs == {Some(1)}

PairNext ==
    \/ Tick
    \/ \E p \in PairIntervalArgs : RegisterChain("c1", p)
    \/ \E c \in PairChainIds : NewMonitor(c, PairClient[c])
    \/ CheckHealthStart("c1")
    \/ \E outcome \in PingOutcomes : ProbePingReturns(outcome)
    \/ \E c \in PairChainIds : GetMetricsStart(c)
    \/ \E status_data \in StatusOutcomes : ProbeStatusReturns(status_data)

\* Two monitors asked for their metrics side by side, the first also for its
\* health.
PairSpec == Init /\ [][PairNext]_vars

\* The chains wired with a real probe while no dashboard is under way, and
\* the chain id callers ask about that no one has wired.
ProbedChainIds == {"c1", "c2"}
UnseenChainIds == {"c3"}

DashboardNext ==
    \/ \E c \in ProbedChainIds : RegisterChain(c, None)
    \/ /\ dash.pc \notin {AWAIT_PING, AWAIT_STATUS}
       /\ \E c \in ProbedChainIds : NewMonitor(c, Probe)
    \/ \E c \in UnseenChainIds : GetChainHealth(c)
    \/ DashStart
    \/ \E outcome \in PingOutcomes : DashPingReturns(outcome)
    \/ \E status_data \in StatusOutcomes : DashStatusReturns(status_data)

\* get_health_dashboard over monitors with real probes that suspend it,
\* next to get_chain_health requests for a chain not seen before.  The
\* clock stands still here: the statuses come from which chains are
\* registered and from what the probes answer.
DashboardSpec == Init /\ [][DashboardNext]_vars

\* The chain callers ask get_chain_health about.
RequestChainIds == {"c1"}

ChainHealthNext ==
    \/ Tick
    \/ \E c \in RequestChainIds, p \in MonitorIntervalArgs : RegisterChain(c, p)
    \/ \E c \in RequestChainIds : UnregisterChain(c)
    \/ \E c \in RequestChainIds : NewMonitor(c, Probe)
    \/ \E c \in RequestChainIds : GetChainHealth(c)
    \/ \E outcome \in PingOutcomes : ReqPingReturns(outcome)
    \/ \E status_data \in StatusOutcomes : ReqStatusReturns(status_data)

\* get_chain_health requests for a chain that is registered, unregistered
\* and wired with a real probe or not, as its callers please.
ChainHealthSpec == Init /\ [][ChainHealthNext]_vars

\* The chain registered and asked about while GET / is served, and the
\* interval it is registered with.
StatusChainIds == {"c1"}
StatusIntervalArgs == {Some(1)}

StatusNext ==
    \/ Tick
    \/ \E c \in StatusChainIds, p \in StatusIntervalArgs : RegisterChain(c, p)
    \/ \E c \in StatusChainIds : UnregisterChain(c)
    \/ \E c \in StatusChainIds : GetChainHealth(c)
    \/ GetHealthStatus

\* GET / served between registry calls and get_chain_health requests.
StatusSpec == Init /\ [][StatusNext]_vars

\* The chains callers ask about and unregister while dashboards are made.
CollectionChainIds == {"c1", "c2"}

CollectionNext ==
    \/ \E c \in CollectionChainIds : UnregisterChain(c)
    \/ \E c \in CollectionChainIds : GetChainHealth(c)
    \/ DashStart

\* The router as it is deployed: monitors come from get_chain_health alone,
\* chains are unregistered behind its back, and dashboards are made.  The
\* clock stands still here.
CollectionSpec == Init /\ [][CollectionNext]_vars

\* The chain id callers ask about that startup has not registered.
AppExtraChainIds == {"c1"}

AppNext ==
    \/ Tick
    \/ now = 0 /\ Startup
    \/ PingerTick
    \/ \E c \in AppExtraChainIds :
          pinger.pc = "sleeping" /\ PingChain(c)
    \/ \E c \in AppExtraChainIds :
          pinger.pc = "sleeping" /\ GetChainHealth(c)
    \/ pinger.pc = "sleeping" /\ DashStart

\* The application of main.py with the router's handlers and pings, and
\* no call of unregister_chain.  Its clock is counted from startup.
AppSpec == Init /\ [][AppNext]_vars

\* The chain whose monitor hands out its snapshot, and the interval it is
\* registered with.
SnapshotChainIds == {"c1"}
SnapshotIntervalArgs == {Some(1)}

SnapshotNext ==
    \/ Tick
    \/ \E c \in SnapshotChainIds, p \in SnapshotIntervalArgs :
          RegisterChain(c, p)
    \/ \E c \in SnapshotChainIds : NewMonitor(c, Probe)
    \/ \E c \in SnapshotChainIds : GetMetricsStart(c)
    \/ \E status_data \in StatusOutcomes : ProbeStatusReturns(status_data)
    \/ \E c \in SnapshotChainIds : CallerKeeps(c)

\* One monitor with a real probe asked for its metrics time after time, and
\* a caller that keeps the snapshot it was handed.
SnapshotSpec == Init /\ [][SnapshotNext]_vars

\* The chain whose monitor is asked for metrics by two callers at a time,
\* and the interval it is registered with.
OverlapChainIds == {"c1"}
OverlapIntervalArgs == {Some(1)}

OverlapNext ==
    \/ Tick
    \/ \E c \in OverlapChainIds, p \in OverlapIntervalArgs :
          RegisterChain(c, p)
    \/ \E c \in OverlapChainIds : NewMonitor(c, Probe)
    \/ \E c \in OverlapChainIds : GetMetricsStart(c)
    \/ \E status_data \in StatusOutcomes : ProbeStatusReturns(status_data)
    \/ \E c \in OverlapChainIds : GetChainHealth(c)
    \/ \E outcome \in PingOutcomes : ReqPingReturns(outcome)
    \/ \E status_data \in StatusOutcomes : ReqStatusReturns(status_data)

\* One monitor with a real probe, asked for its metrics directly and
\* through get_chain_health, the two calls overlapping as they please.
OverlapSpec == Init /\ [][OverlapNext]_vars

\* The chain request handlers register, unregister, ping and check while
\* the prober runs, and the intervals they register it with.
PingerChainIds == {"c1"}
PingerIntervalArgs == {Some(1), Some(2), Some(3)}

PingerNext ==
    \/ Tick
    \/ Startup
    \/ PingerTick
    \/ \E c \in PingerChainIds, p \in PingerIntervalArgs :
          pinger.pc = "sleeping" /\ RegisterChain(c, p)
    \/ \E c \in PingerChainIds :
          pinger.pc = "sleeping" /\ UnregisterChain(c)
    \/ \E c \in PingerChainIds :
          pinger.pc = "sleeping" /\ PingChain(c)
    \/ \E c \in PingerChainIds :
          pinger.pc = "sleeping" /\ IsChainAlive(c)

\* The application of main.py: startup, then the periodic prober next to
\* request handlers that use the registry.
PingerSpec == Init /\ [][PingerNext]_vars

\* The clock advances and the event loop resumes the prober when its sleep
\* is over: no handler blocks the loop.
PingerFairSpec == PingerSpec /\ WF_vars(Tick) /\ WF_vars(PingerTick)

\* ------------------------------------------------------------- properties
\* A step that is a registry call: every call writes a new call record.
IsCall(op, c) == call' # call /\ call'.op = op /\ call'.chain_id = c

\* C1: is_alive(chain_id) returns false for a chain that is not registered,
\* and for a registered chain it returns true exactly when
\* now - last_seen <= ping_interval (the boundary included).
C1_IsAliveContract ==
    \A c \in ChainIds :
        (call.op = "is_alive" /\ call.chain_id = c) =>
            call.ret_bool =
                (/\ c \in registered
                 /\ c \in DOMAIN last_seen
                 /\ c \in DOMAIN ping_intervals
                 /\ call.at - last_seen[c] <= ping_intervals[c])

\* C1 witness: a liveness check made exactly ping_interval seconds after the
\* record was last stamped reported alive.
C1_Witness ==
    /\ call.op = "is_alive"
    /\ call.chain_id \in registered
    /\ call.ret_bool
    /\ call.at = now
    /\ ping_intervals[call.chain_id] > 0
    /\ now - last_seen[call.chain_id] = ping_intervals[call.chain_id]

\* C2: for a chain registered with a positive interval I, is_alive is true
\* right after the registration, true at every time t' <= t + I where t is
\* the time of the latest ping (or of the registration when none followed),
\* and false at every time t' > t + I.
C2_AliveWindow ==
    \A c \in registered :
        (given_interval[c] # None /\ given_interval[c][1] > 0) =>
            /\ is_chain_alive(c) = (now <= touched_at[c].at + given_interval[c][1])
            /\ (call.op = "is_alive" /\ call.chain_id = c) =>
                  call.ret_bool = (call.at <= touched_at[c].at + given_interval[c][1])

\* C2 witness: a chain registered with interval 1 was pinged later and a
\* liveness check made more than 1 second after that ping returned false.
C2_Witness ==
    \E c \in registered :
        /\ given_interval[c] = Some(1)
        /\ touched_at[c].by = "ping"
        /\ touched_at[c].at > 0
        /\ call.op = "is_alive" /\ call.chain_id = c
        /\ call.at > touched_at[c].at + 1
        /\ ~call.ret_bool

\* C3: the chains with a last_seen value are the chains with a
\* ping_interval value, and they are the chains registered and not
\* unregistered since.
C3_RecordIffRegistered ==
    /\ DOMAIN last_seen = DOMAIN ping_intervals
    /\ DOMAIN last_seen = registered

\* C3 witness: a registered chain was just unregistered while another chain
\* is still registered.
C3_Witness ==
    /\ call.op = "unregister"
    /\ call.was_registered
    /\ registered # {}
    /\ call.chain_id \notin registered

\* C4: register on a chain that is already registered changes neither dict,
\* whatever interval is passed and however much time has passed.
C4_RegisterIdempotent ==
    [][\A c \in ChainIds :
          (IsCall("register", c) /\ c \in registered) =>
              (last_seen' = last_seen /\ ping_intervals' = ping_intervals)]_vars

\* C4 witness: register was called on a registered chain, after its record
\* was stamped, with an interval other than the one first given.
C4_Witness ==
    /\ call.op = "register"
    /\ call.was_registered
    /\ call.chain_id \in registered
    /\ call.arg # given_interval[call.chain_id]
    /\ call.arg # None
    /\ call.at > touched_at[call.chain_id].at

\* C5: after register(chain_id, interval) on an unregistered chain,
\* ping_interval(chain_id) is the interval given (0 included), the default
\* when none was given, and last_seen(chain_id) is the time of the call.
C5_RegisterStoresGiven ==
    \A c \in ChainIds :
        (call.op = "register" /\ call.chain_id = c /\ ~call.was_registered) =>
            /\ get_ping_interval(c) =
                  (IF call.arg = None THEN Some(default_ping_interval_seconds)
                   ELSE call.arg)
            /\ get_last_seen(c) = Some(call.at)

\* C6: ping on a registered chain stamps last_seen with the current time,
\* returns true and leaves ping_intervals alone; ping on an unregistered
\* chain returns false and leaves both dicts alone.
C6_PingContract ==
    [][\A c \in ChainIds :
          IsCall("ping", c) =>
              IF c \in registered
              THEN /\ call'.ret_bool
                   /\ last_seen' = Put(last_seen, c, now)
                   /\ ping_intervals' = ping_intervals
              ELSE /\ ~call'.ret_bool
                   /\ last_seen' = last_seen
                   /\ ping_intervals' = ping_intervals]_vars

\* C6 witness: ping on an unregistered chain returned false while another
\* chain holds a record.
C6_Witness ==
    /\ call.op = "ping"
    /\ ~call.was_registered
    /\ ~call.ret_bool
    /\ registered # {}
    /\ call.chain_id \notin DOMAIN last_seen

\* C7: a chain that was unregistered answers every query like a chain never
\* registered (no record, false, none), and a register(c, I) that follows
\* stores I and the time of that call.
C7_UnregisterForgets ==
    \A c \in ChainIds :
        /\ (c \in ever_registered /\ c \notin registered) =>
              /\ get_last_seen(c) = None
              /\ get_ping_interval(c) = None
              /\ ~is_chain_alive(c)
              /\ (call.chain_id = c /\ call.op \in {"ping", "is_alive"}) =>
                    ~call.ret_bool
        /\ (/\ call.op = "register" /\ call.chain_id = c
            /\ call.was_ever_registered /\ ~call.was_registered
            /\ call.arg # None) =>
              /\ get_ping_interval(c) = call.arg
              /\ get_last_seen(c) = Some(call.at)

\* C8: a chain that was never registered is not alive and has neither a
\* last_seen nor a ping_interval, and the three queries change no record.
C8_NeverRegistered ==
    /\ [](\A c \in ChainIds \ ever_registered :
            /\ ~is_chain_alive(c)
            /\ get_last_seen(c) = None
            /\ get_ping_interval(c) = None
            /\ call.chain_id = c =>
                  /\ call.op = "is_alive" => ~call.ret_bool
                  /\ call.op \in {"get_last_seen", "get_ping_interval"} =>
                        call.ret_opt = None)
    /\ [][\A c \in ChainIds :
            (\/ IsCall("is_alive", c)
             \/ IsCall("get_last_seen", c)
             \/ IsCall("get_ping_interval", c)) =>
                (last_seen' = last_seen /\ ping_intervals' = ping_intervals)]_vars

\* C8 witness: is_alive was asked about a chain never registered, while
\* another chain is registered and alive.
C8_Witness ==
    /\ call.op = "is_alive"
    /\ call.chain_id \notin ever_registered
    /\ ~call.ret_bool
    /\ \E d \in registered : is_chain_alive(d)

\* C9: when the registry reports the monitor's chain not alive at the call
\* (unregistered, or heartbeat expired), check_health returns UNHEALTHY
\* with and without a probe, and the probe's ping() is not called.
C9_NotAliveIsUnhealthy ==
    (check.pc # "idle" /\ ~check.alive) =>
        /\ check.pc = "done"
        /\ check.ret = UNHEALTHY
        /\ check.probe_pings = 0
        /\ check.outcome = "none"

\* C9 witness: a monitor with a probe was asked for the health of a chain
\* that is registered but whose heartbeat has expired.
C9_Witness ==
    /\ check.pc = "done"
    /\ ~check.alive
    /\ check.client = Probe
    /\ check.chain_id \in registered
    /\ check.at = now
    /\ check.ret = UNHEALTHY

\* C10: when the chain is alive at the call, check_health returns HEALTHY
\* if there is no probe or ping() returned true, DEGRADED if ping()
\* returned false, UNHEALTHY if ping() raised.
C10_AliveStatusByProbe ==
    (check.pc = "done" /\ check.alive) =>
        /\ check.client = NoClient => (check.ret = HEALTHY /\ check.probe_pings = 0)
        /\ check.client = Probe =>
              /\ check.probe_pings = 1
              /\ check.outcome \in PingOutcomes
              /\ check.outcome = "true" => check.ret = HEALTHY
              /\ check.outcome = "false" => check.ret = DEGRADED
              /\ check.outcome = "raise" => check.ret = UNHEALTHY

\* C10 witness: the chain was alive at the call and the probe's ping()
\* returned false.
C10_Witness ==
    /\ check.pc = "done"
    /\ check.alive
    /\ check.client = Probe
    /\ check.outcome = "false"
    /\ check.ret = DEGRADED

\* The snapshot of the monitor the last get_metrics call was made on.
MetricsCallSnapshot == chain_monitors[metrics_call.chain_id].last_metrics

\* C11: whatever the probe does (ping() or get_status() raising included)
\* and whatever the registry holds, a finished check_health has returned a
\* status and a finished get_metrics has returned; no exception reached
\* the caller of either.
C11_ProbeFailureContained ==
    /\ check.pc = "done" => check.ret \in {HEALTHY, DEGRADED, UNHEALTHY}
    /\ metrics_call.pc = "done" => ~metrics_call.raised

\* C11 witness: the probe's ping() raised in the last check_health and its
\* get_status() raised in the last get_metrics, and both calls returned.
C11_Witness ==
    /\ check.pc = "done"
    /\ check.outcome = "raise"
    /\ check.ret = UNHEALTHY
    /\ metrics_call.pc = "done"
    /\ metrics_call.outcome = StatusRaises
    /\ ~metrics_call.raised

\* C12: when get_metrics has returned, response_time_ms and error_rate are
\* the values get_status() reported (0 for a key it left out), -1 and 1.0
\* when get_status() raised, 0 and 0.0 when there is no probe; nothing an
\* earlier call wrote is left.
C12_MetricsByStatus ==
    metrics_call.pc = "done" =>
        LET m == MetricsCallSnapshot
            o == metrics_call.outcome
        IN  /\ metrics_call.client = NoClient =>
                  (m.response_time_ms = 0 /\ m.error_rate = 0)
            /\ (metrics_call.client = Probe /\ o.raises) =>
                  (m.response_time_ms = -1 /\ m.error_rate = 100)
            /\ (metrics_call.client = Probe /\ ~o.raises) =>
                  /\ m.response_time_ms = GetOr(o.response_time_ms, 0)
                  /\ m.error_rate = GetOr(o.error_rate, 0)

\* C12 witness: get_status() returned a dict without the two keys and the
\* snapshot holds 0 and 0.0, in a call made after the monitor was built.
C12_Witness ==
    /\ metrics_call.pc = "done"
    /\ metrics_call.client = Probe
    /\ metrics_call.outcome = StatusEmpty
    /\ metrics_call.at > MetricsCallSnapshot.timestamp
    /\ MetricsCallSnapshot.response_time_ms = 0
    /\ MetricsCallSnapshot.error_rate = 0

\* The last check_health found the chain alive and the probe's ping()
\* raised, and get_metrics has been called on the same monitor.
PingRaisedAndMetricsFetched ==
    /\ check.pc = "done"
    /\ check.alive
    /\ check.outcome = "raise"
    /\ metrics_call.pc = "done"
    /\ metrics_call.chain_id = check.chain_id

\* C13 (as claimed): with a probe whose ping() raises and the chain alive,
\* check_health returns UNHEALTHY and get_metrics leaves
\* response_time_ms = -1 and error_rate = 1.0, whatever get_status() does.
C13_PingRaisesMeansSentinels ==
    PingRaisedAndMetricsFetched =>
        /\ check.ret = UNHEALTHY
        /\ MetricsCallSnapshot.response_time_ms = -1
        /\ MetricsCallSnapshot.error_rate = 100

\* C13 (amended): with a probe whose ping() raises and the chain alive,
\* check_health returns UNHEALTHY; get_metrics leaves -1 and 1.0 when the
\* probe's get_status() raises too, and the reported values when
\* get_status() succeeds.
C13_SentinelsFollowGetStatus ==
    PingRaisedAndMetricsFetched =>
        LET m == MetricsCallSnapshot
            o == metrics_call.outcome
        IN  /\ check.ret = UNHEALTHY
            /\ o.raises => (m.response_time_ms = -1 /\ m.error_rate = 100)
            /\ ~o.raises =>
                  /\ m.response_time_ms = GetOr(o.response_time_ms, 0)
                  /\ m.error_rate = GetOr(o.error_rate, 0)

\* C13 witness: ping() raised with the chain alive and get_status() raised
\* too.
C13_Witness ==
    /\ PingRaisedAndMetricsFetched
    /\ metrics_call.outcome = StatusRaises
    /\ MetricsCallSnapshot.response_time_ms = -1

\* The chains of a dashboard result whose status is st.
DashChainsWith(st) == {c \in DOMAIN dash.chains : dash.chains[c] = st}

\* C14: a returned dashboard has unhealthy_chains = the number of chains
\* whose check_health returned UNHEALTHY, degraded_chains = the number that
\* returned DEGRADED, total_chains = the number of entries of its chains
\* map, and overall_status UNHEALTHY if unhealthy_chains > 0, else DEGRADED
\* if degraded_chains > 0, else HEALTHY (so HEALTHY with zero counts when
\* there is no monitor).
C14_DashboardAggregation ==
    dash.pc = "done" =>
        /\ dash.unhealthy_count = Cardinality(DashChainsWith(UNHEALTHY))
        /\ dash.degraded_count = Cardinality(DashChainsWith(DEGRADED))
        /\ dash.total_chains = Cardinality(DOMAIN dash.chains)
        /\ dash.overall_status =
              (IF Cardinality(DashChainsWith(UNHEALTHY)) > 0 THEN UNHEALTHY
               ELSE IF Cardinality(DashChainsWith(DEGRADED)) > 0 THEN DEGRADED
               ELSE HEALTHY)
        /\ DOMAIN dash.chains = {} =>
              /\ dash.overall_status = HEALTHY
              /\ dash.unhealthy_count = 0
              /\ dash.degraded_count = 0
              /\ dash.total_chains = 0

\* C14 witness: a dashboard over three chains that are HEALTHY, DEGRADED
\* and UNHEALTHY returned UNHEALTHY with one unhealthy and one degraded.
C14_Witness ==
    /\ dash.pc = "done"
    /\ dash.total_chains = 3
    /\ Cardinality(DashChainsWith(HEALTHY)) = 1
    /\ Cardinality(DashChainsWith(DEGRADED)) = 1
    /\ Cardinality(DashChainsWith(UNHEALTHY)) = 1
    /\ dash.overall_status = UNHEALTHY
    /\ dash.unhealthy_count = 1
    /\ dash.degraded_count = 1

\* C20: get_health_dashboard never fails its caller, also when a
\* get_chain_health request for an unseen chain adds a monitor while the
\* dashboard is suspended in a probe call.
C20_DashboardNeverFails ==
    dash.pc # RAISED

\* A step that is the call of get_chain_health(c), up to its return or its
\* first suspension.
IsChainHealthCall(c) ==
    /\ req.pc \notin {AWAIT_PING, AWAIT_STATUS}
    /\ req' # req
    /\ req'.chain_id = c

\* C15 as stated: get_chain_health(c) for a chain without a monitor does
\* not fail, creates the monitor and registers an unregistered c with the
\* registry's default ping interval.
C15_LazyMonitorRegistersWithDefault ==
    [][\A c \in RequestChainIds :
          (IsChainHealthCall(c) /\ c \notin DOMAIN chain_monitors) =>
              /\ req'.pc = "done"
              /\ c \in DOMAIN chain_monitors'
              /\ c \notin DOMAIN last_seen =>
                    /\ Get(last_seen', c) = Some(now)
                    /\ Get(ping_intervals', c) =
                          Some(default_ping_interval_seconds)]_vars

\* C15 amended: get_chain_health(c) for a chain without a monitor does not
\* fail, creates the monitor and registers an unregistered c with the
\* router's own ping interval of 5 seconds; a registered c keeps its record.
C15_LazyMonitorRegistersWithRouterInterval ==
    [][\A c \in RequestChainIds :
          (IsChainHealthCall(c) /\ c \notin DOMAIN chain_monitors) =>
              /\ req'.pc = "done"
              /\ c \in DOMAIN chain_monitors'
              /\ c \notin DOMAIN last_seen =>
                    /\ Get(last_seen', c) = Some(now)
                    /\ Get(ping_intervals', c) = Some(RouterPingInterval)
              /\ c \in DOMAIN last_seen =>
                    /\ last_seen' = last_seen
                    /\ ping_intervals' = ping_intervals]_vars

\* C15 witness: a get_chain_health request for a chain with neither a
\* monitor nor a heartbeat record has returned, and the chain is registered
\* with the router's interval.
C15_Witness ==
    /\ req.pc = "done"
    /\ ~req.had_monitor
    /\ ~req.was_registered
    /\ req.chain_id \in DOMAIN chain_monitors
    /\ Get(last_seen, req.chain_id) = Some(req.at)
    /\ Get(ping_intervals, req.chain_id) = Some(RouterPingInterval)

\* C16: every get_chain_health(c) call made while c is not registered
\* leaves c registered, also when c already has a monitor.
C16_ChainHealthAlwaysRegisters ==
    [][\A c \in RequestChainIds :
          (IsChainHealthCall(c) /\ c \notin DOMAIN last_seen) =>
              c \in DOMAIN last_seen']_vars

\* What check_health of a monitor for chain c over a dummy client returns in
\* the current state.
CheckHealthNow(c, dummy_status) ==
    HealthPhase(ChainHealthMonitor(c, Dummy), dummy_status).status

IsPingerPass == pinger.pc = "sleeping" /\ pinger' # pinger

\* Every chain id of the application.
AppChainIds == PingerChainIds \cup Range(dummy_chains)

\* C18: the prober, once started, never leaves its loop; each of its passes
\* stamps every chain registered at that moment with the time of the pass,
\* whatever the chain's ping interval; and, the clock permitting, a
\* registered chain is stamped by the prober's next pass or is unregistered
\* by then.
C18_ProberPingsAllForever ==
    /\ [][pinger.pc = "sleeping" => pinger'.pc = "sleeping"]_vars
    /\ [][IsPingerPass =>
            /\ DOMAIN last_seen' = DOMAIN last_seen
            /\ \A c \in DOMAIN last_seen : last_seen'[c] = now]_vars
    /\ \A c \in AppChainIds :
       \A w \in 0..(MaxTime + PingerSleep + MaxLate) :
          (/\ pinger.pc = "sleeping"
           /\ pinger.wake = w
           /\ c \in DOMAIN last_seen)
          ~> (\/ c \notin DOMAIN last_seen
              \/ /\ touched_at[c].by = "prober"
                 /\ last_seen[c] >= w)

\* C18 witness: the prober has just made a pass that is not its first, and
\* chains with ping intervals of 1 and 5 seconds both carry its time.
C18_Witness ==
    /\ pinger.pc = "sleeping"
    /\ pinger.wake = now + PingerSleep
    /\ now >= 2 * PingerSleep
    /\ DOMAIN last_seen = AppChainIds
    /\ ping_intervals["c1"] = 1
    /\ ping_intervals["chain_alpha"] = StartupPingInterval
    /\ \A c \in AppChainIds :
          last_seen[c] = now /\ touched_at[c].by = "prober"

\* C19: with the prober's passes interleaved with handler calls, the
\* registry is at every moment what the calls made so far give one after
\* the other: a chain has last_seen and ping_interval together, exactly
\* when it is registered, with the time of its last registration or ping
\* and the interval it was registered with; and ping and is_alive return
\* what that record gives.
C19_RegistryLinearizable ==
    /\ [](/\ DOMAIN last_seen = registered
          /\ DOMAIN ping_intervals = registered
          /\ \A c \in registered :
                /\ last_seen[c] = touched_at[c].at
                /\ Some(ping_intervals[c]) = given_interval[c])
    /\ [][\A c \in AppChainIds :
            /\ IsCall("ping", c) =>
                  /\ call'.ret_bool = (c \in registered)
                  /\ c \in registered => last_seen'[c] = now
            /\ IsCall("is_alive", c) =>
                  call'.ret_bool =
                      /\ c \in registered
                      /\ now - touched_at[c].at <= given_interval[c][1]
            /\ IsCall("register", c) =>
                  c \in registered' /\ (c \in registered => UNCHANGED registry_vars)
            /\ IsCall("unregister", c) =>
                  c \notin DOMAIN last_seen' /\ c \notin DOMAIN ping_intervals'
          ]_vars

\* C19 witness: a handler registered c1, the prober refreshed it, a handler
\* then found it alive after its own interval since registration had run
\* out, and it is still registered.
C19_Witness ==
    /\ pinger.pc = "sleeping"
    /\ "c1" \in registered
    /\ given_interval["c1"] = Some(1)
    /\ touched_at["c1"].by = "prober"
    /\ call.op = "is_alive" /\ call.chain_id = "c1"
    /\ call.ret_bool
    /\ call.at = touched_at["c1"].at + 1

\* C29: register, unregister and ping on chain c leave the record of every
\* other chain d (last_seen, ping_interval, whether it is registered) as it
\* was, and is_alive(d) changes only when d's own record or the clock does.
C29_RecordsIndependent ==
    [][\A c \in ChainIds : \A d \in ChainIds \ {c} :
          /\ (IsCall("register", c) \/ IsCall("unregister", c)
                  \/ IsCall("ping", c)) =>
                /\ Get(last_seen', d) = Get(last_seen, d)
                /\ Get(ping_intervals', d) = Get(ping_intervals, d)
                /\ (d \in registered') = (d \in registered)
          /\ (/\ Get(last_seen', d) = Get(last_seen, d)
              /\ Get(ping_intervals', d) = Get(ping_intervals, d)
              /\ now' = now) =>
                is_chain_alive(d)' = is_chain_alive(d)]_vars

\* C29 witness: c1 has just been pinged while c2, registered and stamped
\* earlier, has kept its older last_seen and has run out of time.
C29_Witness ==
    /\ call.op = "ping" /\ call.chain_id = "c1" /\ call.ret_bool
    /\ call.at = now
    /\ Get(last_seen, "c1") = Some(now)
    /\ "c2" \in registered
    /\ last_seen["c2"] < now
    /\ is_chain_alive("c1")
    /\ ~is_chain_alive("c2")

\* A step that starts a check_health call on the monitor of chain c.
IsCheckHealthCall(c) ==
    check.pc # AWAIT_PING /\ check' # check /\ check'.chain_id = c

\* A step that starts a get_metrics call on the monitor of chain c.
IsGetMetricsCall(c) ==
    /\ metrics_call.pc # AWAIT_STATUS
    /\ metrics_call' # metrics_call
    /\ metrics_call'.chain_id = c

\* Chain c has a monitor without a probe and is registered with an interval
\* I > 0 given by the caller.
NoProbeWithInterval(c) ==
    /\ c \in DOMAIN chain_monitors
    /\ chain_monitors[c].chain_api_client = NoClient
    /\ c \in registered
    /\ given_interval[c] # None
    /\ given_interval[c][1] > 0

\* C22: for a monitor without a probe on a chain registered with interval
\* I > 0, a health query made right after a ping gives check_health =
\* HEALTHY and is_alive = true, and one made more than I seconds after the
\* last ping, with no ping in between, gives UNHEALTHY and is_alive = false.
C22_NoProbeFollowsHeartbeat ==
    [][\A c \in MonitorChainIds :
          (NoProbeWithInterval(c) /\ touched_at[c].by = "ping") =>
              /\ (touched_at[c].at = now /\ IsCheckHealthCall(c)) =>
                    check'.pc = "done" /\ check'.ret = HEALTHY
              /\ (touched_at[c].at = now /\ IsGetMetricsCall(c)) =>
                    /\ metrics_call'.pc = "done"
                    /\ chain_monitors'[c].last_metrics.is_alive = Some(TRUE)
              /\ (now - touched_at[c].at > given_interval[c][1]
                      /\ IsCheckHealthCall(c)) =>
                    check'.pc = "done" /\ check'.ret = UNHEALTHY
              /\ (now - touched_at[c].at > given_interval[c][1]
                      /\ IsGetMetricsCall(c)) =>
                    /\ metrics_call'.pc = "done"
                    /\ chain_monitors'[c].last_metrics.is_alive = Some(FALSE)
      ]_vars

\* C22 witness: a chain registered with interval 1 was pinged 2 seconds
\* ago and not since; its monitor has no probe, and a health query made
\* now returned UNHEALTHY and is_alive = false.
C22_Witness ==
    /\ NoProbeWithInterval("c1")
    /\ given_interval["c1"] = Some(1)
    /\ touched_at["c1"].by = "ping"
    /\ now = touched_at["c1"].at + 2
    /\ check.pc = "done" /\ check.chain_id = "c1" /\ check.at = now
    /\ check.ret = UNHEALTHY
    /\ metrics_call.pc = "done" /\ metrics_call.chain_id = "c1"
    /\ metrics_call.at = now
    /\ chain_monitors["c1"].last_metrics.is_alive = Some(FALSE)

\* C28: a check_health call, at its start and at its return whatever the
\* probe did, leaves every metrics snapshot and the registry's records as
\* they were; a monitor's snapshot changes only in a step of a get_metrics
\* call on that monitor.
C28_CheckHealthReadsOnly ==
    [][/\ check' # check =>
             /\ chain_monitors' = chain_monitors
             /\ last_seen' = last_seen
             /\ ping_intervals' = ping_intervals
       /\ \A c \in DOMAIN chain_monitors :
             chain_monitors'[c].last_metrics # chain_monitors[c].last_metrics =>
                 /\ metrics_call' # metrics_call
                 /\ metrics_call'.chain_id = c]_vars

\* C28 witness: check_health on c1's monitor has returned after its probe
\* raised and get_metrics on c2's monitor has returned in the same second;
\* c2's snapshot carries that time and c1's snapshot is still as built.
C28_Witness ==
    /\ check.pc = "done" /\ check.chain_id = "c1" /\ check.at = now
    /\ check.outcome = "raise"
    /\ metrics_call.pc = "done" /\ metrics_call.chain_id = "c2"
    /\ metrics_call.at = now
    /\ chain_monitors["c2"].last_metrics.last_checked = now
    /\ chain_monitors["c2"].last_metrics.is_alive # None
    /\ chain_monitors["c1"].last_metrics.last_checked < now
    /\ chain_monitors["c1"].last_metrics.is_alive = None

\* C26: a probe call that ends by timeout is treated like any other probe
\* failure: check_health returns UNHEALTHY, get_metrics sets
\* response_time_ms = -1 and error_rate = 1.0, and neither lets the
\* exception reach its caller.
C26_TimeoutIsProbeFailure ==
    /\ check.ret # RAISED
    /\ ~metrics_call.raised
    /\ (check.pc = "done" /\ check.outcome = TIMEOUT) =>
          /\ check.ret = UNHEALTHY
          /\ check.ret = check_health_resume("raise")
    /\ (metrics_call.pc = "done" /\ metrics_call.outcome.timeout) =>
          LET m == chain_monitors[metrics_call.chain_id].last_metrics IN
          /\ m.response_time_ms = -1
          /\ m.error_rate = 100
          /\ m = get_metrics_resume(m, StatusRaises).last_metrics

\* C26 witness: on an alive chain the probe's ping() and its get_status()
\* both ended by timeout, and check_health and get_metrics have returned.
C26_Witness ==
    /\ check.pc = "done" /\ check.alive
    /\ check.outcome = TIMEOUT
    /\ check.ret = UNHEALTHY
    /\ metrics_call.pc = "done"
    /\ metrics_call.outcome = StatusTimeout
    /\ chain_monitors[metrics_call.chain_id].last_metrics.response_time_ms = -1

\* The status check_health gives for what it met: the registry's verdict
\* and the answer of the probe's ping().
StatusFor(met) ==
    IF ~met.alive THEN UNHEALTHY
    ELSE CASE met.ping = "none" -> HEALTHY
           [] met.ping = "true" -> HEALTHY
           [] met.ping = "false" -> DEGRADED
           [] met.ping = "raise" -> UNHEALTHY

\* C24: a dashboard request changes neither the registry's records nor the
\* set of monitors, and what it returns is a function of what it met: each
\* chain's status follows from the registry's verdict and the probe's
\* answer for that chain, and the counts and the overall status follow from
\* these statuses, whatever earlier requests returned.
C24_DashboardStateless ==
    /\ [][dash' # dash =>
             /\ last_seen' = last_seen
             /\ ping_intervals' = ping_intervals
             /\ DOMAIN chain_monitors' = DOMAIN chain_monitors
             /\ monitor_order' = monitor_order]_vars
    /\ [](dash.pc = "done" =>
             /\ DOMAIN dash.seen = DOMAIN dash.chains
             /\ Cardinality(DOMAIN dash.chains) = dash.total_chains
             /\ \A c \in DOMAIN dash.chains :
                   dash.chains[c] = StatusFor(dash.seen[c])
             /\ dash.unhealthy_count =
                   Cardinality({c \in DOMAIN dash.seen :
                                   StatusFor(dash.seen[c]) = UNHEALTHY})
             /\ dash.degraded_count =
                   Cardinality({c \in DOMAIN dash.seen :
                                   StatusFor(dash.seen[c]) = DEGRADED})
             /\ dash.overall_status =
                   (IF \E c \in DOMAIN dash.seen :
                          StatusFor(dash.seen[c]) = UNHEALTHY
                    THEN UNHEALTHY
                    ELSE IF \E c \in DOMAIN dash.seen :
                               StatusFor(dash.seen[c]) = DEGRADED
                         THEN DEGRADED
                         ELSE HEALTHY))

\* C24 witness: a dashboard over two monitors has returned HEALTHY; c1 is
\* registered and probed, and its probe answered true.
C24_Witness ==
    /\ dash.pc = "done"
    /\ dash.total_chains = 2
    /\ dash.overall_status = HEALTHY
    /\ "c1" \in DOMAIN dash.seen
    /\ dash.seen["c1"].ping = "true"
    /\ chain_monitors["c1"].chain_api_client = Probe
    /\ last_seen # EmptyDict

\* C25: while a dashboard request is suspended in a probe call for a chain,
\* every chain before it in the loop has had both its probe calls completed
\* and its entry stored, no later chain has been started, and get_status()
\* of the chain is awaited only after its ping() has answered.
C25_ProbesOneAfterAnother ==
    dash.pc \in {AWAIT_PING, AWAIT_STATUS} =>
        /\ dash.idx \in 1..Len(monitor_order)
        /\ DOMAIN dash.chains = {monitor_order[i] : i \in 1..(dash.idx - 1)}
        /\ DOMAIN dash.seen = {monitor_order[i] : i \in 1..dash.idx}
        /\ \A c \in DOMAIN dash.chains : dash.seen[c].ping # "pending"
        /\ dash.pc = AWAIT_PING =>
              /\ dash.seen[monitor_order[dash.idx]].ping = "pending"
              /\ dash.cur_status = UNKNOWN
        /\ dash.pc = AWAIT_STATUS =>
              /\ dash.seen[monitor_order[dash.idx]].ping # "pending"
              /\ dash.cur_status # UNKNOWN

\* C25 witness: the dashboard awaits get_status() of the third chain of its
\* loop; the first two, one of them probed, are done and stored.
C25_Witness ==
    /\ dash.pc = AWAIT_STATUS
    /\ dash.idx = 3
    /\ Cardinality(DOMAIN dash.chains) = 2
    /\ \E c \in DOMAIN dash.chains :
          chain_monitors[c].chain_api_client = Probe
    /\ dash.seen[monitor_order[3]].ping = "false"

\* C27: get_health_status returns the same dict whenever it is called,
\* whatever chains are registered, alive or monitored, and its call changes
\* nothing of the registry, the monitors or the requests under way.
C27_OverallStatusConstant ==
    /\ [](api_status # None =>
             api_status[1].result =
                 [status |-> "operational", message |-> "API is healthy"])
    /\ [][api_status' # api_status =>
             UNCHANGED <<now, registry_vars, history_vars, call,
                         chain_monitors, check, monitor_order, metrics_call,
                         req, dash, pinger, fetched, held>>]_vars

\* C27 witness: get_health_status has just returned while a monitored
\* chain is registered with its heartbeat overdue.
C27_Witness ==
    /\ api_status # None
    /\ api_status[1].at = now
    /\ \E c \in DOMAIN last_seen :
          ~is_chain_alive(c) /\ c \in DOMAIN chain_monitors

C21_HandedOutSnapshotKeepsValues ==
    held # None => SnapshotOf(held[1].ref) = held[1].seen

\* C30: after get_metrics calls made one after another on a monitor with a
\* probe, the snapshot's response_time_ms is negative exactly when
\* get_status() of the last call failed; after a success both fields hold
\* what the probe reported, 0 for a missing figure.
C30_SentinelIffLastStatusFailed ==
    (/\ metrics_call.pc = "done"
     /\ metrics_call.client = Probe) =>
        LET m == chain_monitors[metrics_call.chain_id].last_metrics IN
        /\ m.response_time_ms < 0 <=> metrics_call.outcome.raises
        /\ ~metrics_call.outcome.raises =>
              /\ m.response_time_ms =
                     GetOr(metrics_call.outcome.response_time_ms, 0)
              /\ m.error_rate = GetOr(metrics_call.outcome.error_rate, 0)

\* C30 witness: a caller holds what the snapshot showed after a failed
\* get_status(), both sentinels, and a later get_metrics call whose
\* get_status() succeeded has returned: response_time_ms is 50 and
\* error_rate 0.01.
C30_Witness ==
    /\ held # None
    /\ held[1].seen.response_time_ms = -1
    /\ held[1].seen.error_rate = 100
    /\ metrics_call.pc = "done"
    /\ metrics_call.client = Probe
    /\ ~metrics_call.outcome.raises
    /\ chain_monitors[metrics_call.chain_id].last_metrics.response_time_ms = 50
    /\ chain_monitors[metrics_call.chain_id].last_metrics.error_rate = 1

Verdicts == HealthStatus \ {UNKNOWN}

\* C32: check_health returns HEALTHY, DEGRADED or UNHEALTHY, never
\* UNKNOWN, for every monitor in every registry state and for every answer
\* or failure of ping(); so the status of a returned get_chain_health and
\* every per-chain status a dashboard has stored is one of the three, and
\* a returned dashboard has counted each chain in exactly one of the cases
\* unhealthy, degraded, neither.
C32_NeverUnknown ==
    /\ \A outcome \in PingOutcomesWithTimeout :
          check_health_resume(outcome) \in Verdicts
    /\ \A c \in DOMAIN chain_monitors :
          check_health(chain_monitors[c]) \in Verdicts \cup {AWAIT_PING}
    /\ req.pc = "done" => req.status \in Verdicts
    /\ \A c \in DOMAIN dash.chains : dash.chains[c] \in Verdicts
    /\ dash.pc = "done" =>
          /\ dash.unhealthy_count =
                Cardinality({c \in DOMAIN dash.chains :
                                dash.chains[c] = UNHEALTHY})
          /\ dash.degraded_count =
                Cardinality({c \in DOMAIN dash.chains :
                                dash.chains[c] = DEGRADED})
          /\ dash.unhealthy_count + dash.degraded_count
                + Cardinality({c \in DOMAIN dash.chains :
                                  dash.chains[c] = HEALTHY})
                = Cardinality(DOMAIN dash.chains)

\* C32 witness: a dashboard has returned with a chain whose ping() raised
\* and a chain whose ping() answered false, and a get_chain_health request
\* has returned too.
C32_Witness ==
    /\ dash.pc = "done"
    /\ req.pc = "done"
    /\ \E c \in DOMAIN dash.seen :
          dash.seen[c].ping = "raise" /\ dash.chains[c] = UNHEALTHY
    /\ \E c \in DOMAIN dash.seen :
          dash.seen[c].ping = "false" /\ dash.chains[c] = DEGRADED

\* C33: in the result of a returned get_chain_health the status and the
\* metrics agree on liveness: is_alive false means status UNHEALTHY.
C33_StatusAgreesWithIsAlive ==
    req.pc = "done" =>
        (chain_monitors[req.chain_id].last_metrics.is_alive = Some(FALSE)
            => req.status = UNHEALTHY)

\* C34: a pass of the prober is one step: it stamps every registered chain
\* with its time and leaves the set of registered chains as it is, so in
\* no state, whoever looks, is a registered chain older than a chain that
\* still carries the prober's stamp.
C34_ProberPassAtomic ==
    /\ [](\A c \in DOMAIN last_seen :
             touched_at[c].by = "prober" =>
                 \A d \in DOMAIN last_seen : last_seen[d] >= last_seen[c])
    /\ [][IsPingerPass =>
             /\ registered' = registered
             /\ DOMAIN last_seen' = DOMAIN last_seen
             /\ ping_intervals' = ping_intervals
             /\ \A c \in DOMAIN last_seen : last_seen'[c] = now']_vars

\* C34 witness: a handler asks is_chain_alive in the second of a pass of
\* the prober, with the three chains of startup and a chain registered
\* later all registered: all four carry the stamp of that pass.
C34_Witness ==
    /\ pinger.pc = "sleeping"
    /\ pinger.wake = now + PingerSleep
    /\ call.op = "is_alive"
    /\ call.at = now
    /\ now > PingerSleep
    /\ Cardinality(DOMAIN last_seen) = 4
    /\ \A c \in DOMAIN last_seen :
          touched_at[c].by = "prober" /\ last_seen[c] = now

\* C35: with a clock that never goes back, the last_seen of every
\* registered chain is at most now in every state, and no step lowers the
\* last_seen of a chain that is registered before and after it, be it a
\* ping, a repeated register_chain or anything else.
C35_LastSeenMonotone ==
    /\ [](\A c \in DOMAIN last_seen : last_seen[c] <= now)
    /\ [][/\ now' >= now
          /\ \A c \in (DOMAIN last_seen) \cap (DOMAIN last_seen') :
                last_seen'[c] >= last_seen[c]]_vars

\* C35 witness: register_chain has just been called again for a chain that
\* was registered and pinged in earlier seconds: the record keeps the time
\* of the ping.
C35_Witness ==
    /\ call.op = "register"
    /\ call.was_registered
    /\ call.at = now
    /\ call.chain_id \in DOMAIN last_seen
    /\ touched_at[call.chain_id].by = "ping"
    /\ last_seen[call.chain_id] > 0
    /\ last_seen[call.chain_id] < now

\* C36: _chain_monitors holds one monitor per chain id and only grows: no
\* step removes a monitor, replaces it by another or reorders the dict; a
\* get_chain_health(c) that finds a monitor for c builds none and works on
\* that monitor's snapshot; and the total_chains of a dashboard is never
\* below that of the dashboard before.
C36_MonitorsOnlyGrow ==
    /\ [](/\ Range(monitor_order) = DOMAIN chain_monitors
          /\ Len(monitor_order) = Cardinality(DOMAIN chain_monitors)
          /\ \A c \in DOMAIN chain_monitors :
                chain_monitors[c].chain_id = c)
    /\ [][/\ DOMAIN chain_monitors \subseteq DOMAIN chain_monitors'
          /\ Len(monitor_order') >= Len(monitor_order)
          /\ SubSeq(monitor_order', 1, Len(monitor_order)) = monitor_order
          /\ \A c \in DOMAIN chain_monitors :
                /\ chain_monitors'[c].chain_api_client =
                       chain_monitors[c].chain_api_client
                /\ chain_monitors'[c].last_metrics.timestamp =
                       chain_monitors[c].last_metrics.timestamp
                /\ IsChainHealthCall(c) =>
                       /\ req'.had_monitor
                       /\ monitor_order' = monitor_order
          /\ dash'.total_chains >= dash.total_chains]_vars

\* C36 witness: get_chain_health has just been asked again about a chain
\* that has its monitor and was unregistered since; two monitors exist and
\* a dashboard has reported both.
C36_Witness ==
    /\ req.pc = "done"
    /\ req.had_monitor
    /\ ~req.was_registered
    /\ req.chain_id \notin DOMAIN last_seen
    /\ Len(monitor_order) = 2
    /\ dash.pc = "done"
    /\ dash.total_chains = 2

\* C37: as long as unregister_chain is never called, every chain id that
\* has a monitor has a record in the registry; and a pass of the prober
\* leaves the set of registered chains and every ping interval as they
\* were.
C37_MonitoredMeansRegistered ==
    /\ [](/\ DOMAIN chain_monitors \subseteq DOMAIN last_seen
          /\ DOMAIN chain_monitors \subseteq DOMAIN ping_intervals)
    /\ [][IsPingerPass =>
             /\ DOMAIN last_seen' = DOMAIN last_seen
             /\ ping_intervals' = ping_intervals
             /\ chain_monitors' = chain_monitors]_vars

\* C37 witness: after startup, a get_chain_health for a fourth chain, a
\* ping by a caller and a dashboard over the four monitors, the prober has
\* just made a pass: four monitors, four records.
C37_Witness ==
    /\ pinger.pc = "sleeping"
    /\ pinger.wake = now + PingerSleep
    /\ now > 0
    /\ Cardinality(DOMAIN chain_monitors) = 4
    /\ DOMAIN last_seen = DOMAIN chain_monitors
    /\ \A c \in DOMAIN last_seen : touched_at[c].by = "prober"
    /\ req.pc = "done"
    /\ call.op = "ping"
    /\ dash.pc = "done"
    /\ dash.total_chains = 4

====
